---------------------------- MODULE Spec2Model ----------------------------
(***************************************************************************)
(* A model of Banner-generator.py: the helpers place_image, hex_to_rgba,   *)
(* the word wrap and vertical layout of draw_text / draw_text_multiline,   *)
(* image_blankness_score / auto_side_choice,                               *)
(* choose_best_pipe_for_background, call_ai_background / gradient_fallback *)
(* and the "Generate Banner" handler that runs them in sequence.           *)
(*                                                                         *)
(* Python floats are IEEE binary64.  The arithmetic the helpers do on them *)
(* (int / int, int * float, float + float, float - float, int(float)) is   *)
(* modelled bit for bit on significands kept as sequences of limbs,       *)
(* because the integers of the model checker are 32 bits wide.             *)
(***************************************************************************)
EXTENDS Integers, Sequences, FiniteSets, TLC

VARIABLES place, hex, text, side, pick, bg, gen

vars == <<place, hex, text, side, pick, bg, gen>>

(***************************************************************************)
(* Natural numbers of any size: sequences of limbs of LimbBits bits, the   *)
(* least significant limb first, no zero limb at the top (<<>> is 0).      *)
(***************************************************************************)
LimbBits == 15

LimbBase == 2 ^ LimbBits

Min(a, b) == IF a <= b THEN a ELSE b

Max(a, b) == IF a >= b THEN a ELSE b

Limb(a, i) == IF i \in 1..Len(a) THEN a[i] ELSE 0

Norm(a) ==
    LET nz == {i \in 1..Len(a) : a[i] # 0}
    IN  IF nz = {} THEN <<>>
        ELSE SubSeq(a, 1, CHOOSE i \in nz : \A j \in nz : j <= i)

\* a machine integer 0 <= n < 2^31 as a natural
BigFromInt(n) ==
    Norm(<<n % LimbBase, (n \div LimbBase) % LimbBase,
           n \div (LimbBase * LimbBase)>>)

\* a natural below 2^31 as a machine integer
BigToInt(a) ==
    Limb(a, 1) + LimbBase * Limb(a, 2) + LimbBase * LimbBase * Limb(a, 3)

BigLt(a, b) ==
    \/ Len(a) < Len(b)
    \/ /\ Len(a) = Len(b)
       /\ \E i \in 1..Len(a) : /\ a[i] < b[i]
                               /\ \A j \in (i + 1)..Len(a) : a[j] = b[j]

\* the carry into limb i of a + b
RECURSIVE AddCarry(_, _, _)
AddCarry(a, b, i) ==
    IF i <= 1 THEN 0
    ELSE (Limb(a, i - 1) + Limb(b, i - 1) + AddCarry(a, b, i - 1)) \div LimbBase

BigAdd(a, b) ==
    Norm([i \in 1..(Max(Len(a), Len(b)) + 1) |->
            (Limb(a, i) + Limb(b, i) + AddCarry(a, b, i)) % LimbBase])

\* the borrow out of limb i - 1 of a - b
RECURSIVE SubBorrow(_, _, _)
SubBorrow(a, b, i) ==
    IF i <= 1 THEN 0
    ELSE IF Limb(a, i - 1) - Limb(b, i - 1) - SubBorrow(a, b, i - 1) < 0 THEN 1
    ELSE 0

\* a - b for a >= b
BigSub(a, b) ==
    Norm([i \in 1..Len(a) |->
            (Limb(a, i) - Limb(b, i) - SubBorrow(a, b, i)) % LimbBase])

\* the carry into limb i of a * n
RECURSIVE MulCarry(_, _, _)
MulCarry(a, n, i) ==
    IF i <= 1 THEN 0
    ELSE (n * Limb(a, i - 1) + MulCarry(a, n, i - 1)) \div LimbBase

\* a * n for a machine integer 0 <= n < 2^LimbBits
BigMulInt(a, n) ==
    Norm([i \in 1..(Len(a) + 1) |->
            (n * Limb(a, i) + MulCarry(a, n, i)) % LimbBase])

\* a * b of two naturals, one limb of b at a time
RECURSIVE BigMulFrom(_, _, _)
BigMulFrom(a, b, i) ==
    IF i > Len(b) THEN <<>>
    ELSE BigAdd([j \in 1..(i - 1) |-> 0] \o BigMulInt(a, b[i]),
                BigMulFrom(a, b, i + 1))

BigMul(a, b) == IF a = <<>> \/ b = <<>> THEN <<>> ELSE Norm(BigMulFrom(a, b, 1))

\* the number of bits of a
BitLen(a) ==
    IF a = <<>> THEN 0
    ELSE LimbBits * (Len(a) - 1)
         + (CHOOSE k \in 1..LimbBits : 2 ^ (k - 1) <= a[Len(a)] /\ a[Len(a)] < 2 ^ k)

\* bit i of a, bit 0 the least significant
BitAt(a, i) == (Limb(a, (i \div LimbBits) + 1) \div 2 ^ (i % LimbBits)) % 2

\* a \div 2^d
ShrBits(a, d) ==
    LET q == d \div LimbBits
        s == d % LimbBits
    IN  Norm([i \in 1..Max(Len(a) - q, 0) |->
                (Limb(a, i + q) \div 2 ^ s)
                + (Limb(a, i + q + 1) % 2 ^ s) * 2 ^ (LimbBits - s)])

\* a * 2^d
ShlBits(a, d) ==
    LET q == d \div LimbBits
        s == d % LimbBits
    IN  IF a = <<>> THEN <<>>
        ELSE Norm([i \in 1..(Len(a) + q + 1) |->
                    (Limb(a, i - q) % 2 ^ (LimbBits - s)) * 2 ^ s
                    + (Limb(a, i - q - 1) \div 2 ^ (LimbBits - s))])

\* the remainder of the limbs i.. of d (most significant first) divided by b
RECURSIVE DivRem(_, _, _)
DivRem(d, b, i) ==
    IF i > Len(d) THEN 0 ELSE (DivRem(d, b, i + 1) * LimbBase + d[i]) % b

\* d \div b for a machine integer 0 < b < 2^LimbBits
BigDivInt(d, b) ==
    Norm([i \in 1..Len(d) |-> (DivRem(d, b, i + 1) * LimbBase + d[i]) \div b])

(***************************************************************************)
(* binary64.  A float is [s, m, e]: sign s (1 for negative), significand m *)
(* (a natural of at most MantBits bits) and exponent e of its last bit:    *)
(* the value is (-1)^s * m * 2^e.  Every operation computes the exact      *)
(* result and rounds it to MantBits bits, ties to even.  The numbers the   *)
(* program handles are far from the overflow and subnormal ranges.         *)
(***************************************************************************)
MantBits == 53

FZero == [s |-> 0, m |-> <<>>, e |-> 0]

\* Round the natural b * 2^e to MantBits significant bits, ties to even.
RoundBits(sgn, b, e) ==
    IF BitLen(b) <= MantBits
    THEN [s |-> sgn, m |-> b, e |-> e]
    ELSE LET d == BitLen(b) - MantBits
             kept == ShrBits(b, d)
             guard == BitAt(b, d - 1)
             sticky == \E i \in 0..(d - 2) : BitAt(b, i) = 1
             up == guard = 1 /\ (sticky \/ BitAt(kept, 0) = 1)
             r == IF up THEN BigAdd(kept, <<1>>) ELSE kept
         IN  IF BitLen(r) > MantBits
             THEN [s |-> sgn, m |-> ShrBits(r, 1), e |-> e + d + 1]
             ELSE [s |-> sgn, m |-> r, e |-> e + d]

\* The fraction limbs FDiv computes before it rounds: enough for a quotient of
\* more than MantBits + 1 bits whatever 0 < a, b < 2^LimbBits are.
FracLimbs == 5

\* a / b of two machine integers, a >= 0, 0 < b < 2^LimbBits: the quotient
\* correctly rounded.  The quotient is computed to FracLimbs limbs below the
\* point, and a last bit says whether anything is left.
FDiv(a, b) ==
    IF a = 0
    THEN FZero
    ELSE LET d == [i \in 1..FracLimbs |-> 0] \o BigFromInt(a)
             q == BigDivInt(d, b)
             rest == IF DivRem(d, b, 1) # 0 THEN <<1>> ELSE <<>>
         IN  RoundBits(0, BigAdd(ShlBits(q, 1), rest), -(FracLimbs * LimbBits) - 1)

\* n * x of a machine integer 0 <= n < 2^LimbBits and a float x
FMulInt(n, x) ==
    IF n = 0 \/ x.m = <<>> THEN FZero ELSE RoundBits(x.s, BigMulInt(x.m, n), x.e)

\* x + y of two floats that are not negative
FAdd(x, y) ==
    IF x.m = <<>> THEN y
    ELSE IF y.m = <<>> THEN x
    ELSE LET e == Min(x.e, y.e)
         IN  RoundBits(0, BigAdd(ShlBits(x.m, x.e - e), ShlBits(y.m, y.e - e)), e)

\* x - y of two floats that are not negative
FSub(x, y) ==
    IF y.m = <<>> THEN x
    ELSE IF x.m = <<>> THEN [y EXCEPT !.s = 1]
    ELSE LET e == Min(x.e, y.e)
             a == ShlBits(x.m, x.e - e)
             b == ShlBits(y.m, y.e - e)
         IN  IF a = b THEN FZero
             ELSE IF BigLt(a, b) THEN RoundBits(1, BigSub(b, a), e)
             ELSE RoundBits(0, BigSub(a, b), e)

\* int(x): truncation toward zero (of a float below 2^31 in size)
FTrunc(x) ==
    LET mag == IF x.e >= 0 THEN BigToInt(ShlBits(x.m, x.e))
               ELSE BigToInt(ShrBits(x.m, -x.e))
    IN  IF x.s = 1 THEN -mag ELSE mag

(***************************************************************************)
(* place_image(base, overlay, target_w, anchor, margin)                    *)
(*                                                                         *)
(* place holds one call: its arguments (the canvas size, the asset size,   *)
(* the target width, the anchor and the margin) and, once it has run, the  *)
(* size o of the resized overlay and the offset dest it is blended at.     *)
(***************************************************************************)
Anchors ==
    {"Top-Left", "Top-Right", "Bottom-Left", "Bottom-Right",
     "Left-Center", "Right-Center", "Bottom-Center"}

\* A token none of the comparisons of place_image matches.
OtherAnchor == "Top-Center"

DefaultMargin == 24

MaxAssetW == 11

MaxAssetH == 3

TargetWidths == {1, 4, 15}

BaseSizes == {<<40, 30>>, <<13, 16>>}

Margins == {0, DefaultMargin}

\* scale = target_w / max(1, overlay.width)
Scale(target_w, w) == FDiv(target_w, Max(1, w))

\* new_size = (max(1, int(overlay.width*scale)), max(1, int(overlay.height*scale)))
NewSize(w, h, target_w) ==
    <<Max(1, FTrunc(FMulInt(w, Scale(target_w, w)))),
      Max(1, FTrunc(FMulInt(h, Scale(target_w, w))))>>

\* The same with the Bottom-Center test leaving y alone.
AnchorOffsetNoBottomY(bw, bh, ow, oh, anchor, margin) ==
    LET cy == (bh - oh) \div 2
    IN  CASE anchor = "Right-Center" -> <<bw - ow - margin, cy>>
          [] anchor = "Bottom-Center" -> <<(bw - ow) \div 2, cy>>
          [] anchor = "Top-Left" -> <<margin, margin>>
          [] anchor = "Top-Right" -> <<bw - ow - margin, margin>>
          [] anchor = "Bottom-Left" -> <<margin, bh - oh - margin>>
          [] anchor = "Bottom-Right" -> <<bw - ow - margin, bh - oh - margin>>
          [] OTHER -> <<margin, cy>>

\* x, y = margin, (bh - o.height)//2, then one test per anchor in the order
\* of the source, each overwriting what it sets.
AnchorOffset(bw, bh, ow, oh, anchor, margin) ==
    LET p0 == <<margin, (bh - oh) \div 2>>
        p1 == IF anchor = "Left-Center" THEN <<margin, p0[2]>> ELSE p0
        p2 == IF anchor = "Right-Center" THEN <<bw - ow - margin, p1[2]>> ELSE p1
        p3 == IF anchor = "Bottom-Center"
              THEN <<(bw - ow) \div 2, bh - oh - margin>> ELSE p2
        p4 == IF anchor = "Top-Left" THEN <<margin, margin>> ELSE p3
        p5 == IF anchor = "Top-Right" THEN <<bw - ow - margin, margin>> ELSE p4
        p6 == IF anchor = "Bottom-Left" THEN <<margin, bh - oh - margin>> ELSE p5
        p7 == IF anchor = "Bottom-Right"
              THEN <<bw - ow - margin, bh - oh - margin>> ELSE p6
    IN  p7

PlaceIdle == [pc |-> "idle"]

PlaceCalls ==
    [pc : {"call"}, base : BaseSizes, w : 0..MaxAssetW, h : 0..MaxAssetH,
     target_w : TargetWidths, anchor : Anchors \cup {OtherAnchor},
     margin : Margins, o : {<<0, 0>>}, dest : {<<0, 0>>}]

\* base.alpha_composite(o, dest=(x,y)): Pillow releases differ on a dest with
\* a negative coordinate, some raise ValueError, the others clip the overlay.
CompositeOutcomes(dest) ==
    IF dest[1] < 0 \/ dest[2] < 0 THEN {"done", "ValueError"} ELSE {"done"}

\* The whole of place_image: resize, offset, alpha_composite at dest.
PlaceImage ==
    /\ place.pc = "call"
    /\ LET o == NewSize(place.w, place.h, place.target_w)
           dest == AnchorOffset(place.base[1], place.base[2], o[1], o[2],
                                place.anchor, place.margin)
       IN  \E outcome \in CompositeOutcomes(dest) :
              place' = [place EXCEPT !.pc = outcome, !.o = o, !.dest = dest]

(***************************************************************************)
(* hex_to_rgba(hex_str, a=255)                                             *)
(*                                                                         *)
(* A Python string is a sequence of characters; a value that is no string  *)
(* (None, a tuple) is [isstr |-> FALSE].  A printable ASCII character is   *)
(* the one-character string of itself, tab, newline, return and form feed  *)
(* are "\t", "\n", "\r" and "\f", and any other character is named by its *)
(* code point, "U+0663".  The tables of white space and of decimal digits  *)
(* are those of the Unicode data of Python 3.11.                           *)
(***************************************************************************)
OpaqueAlpha == 255

HexChars ==
    <<"0", "1", "2", "3", "4", "5", "6", "7", "8", "9", "A", "B", "C", "D", "E",
      "F">>

HexChar(n, k) == HexChars[((n \div (16 ^ k)) % 16) + 1]

\* The name of the character of code point n, for a character named so.
UName(n) ==
    "U+" \o (IF n >= 65536 THEN HexChar(n, 4) ELSE "") \o HexChar(n, 3)
    \o HexChar(n, 2) \o HexChar(n, 1) \o HexChar(n, 0)

\* The code points of the digits zero of the decimal number systems other
\* than ASCII; the nine code points after each are its digits 1 to 9.
UnicodeZeros ==
    {1632, 1776, 1984, 2406, 2534, 2662, 2790, 2918, 3046, 3174, 3302, 3430,
     3558, 3664, 3792, 3872, 4160, 4240, 6112, 6160, 6470, 6608, 6784, 6800,
     6992, 7088, 7232, 7248, 42528, 43216, 43264, 43472, 43504, 43600, 44016,
     65296, 66720, 68912, 69734, 69872, 69942, 70096, 70384, 70736, 70864,
     71248, 71360, 71472, 71904, 72016, 72784, 73040, 73120, 92768, 92864,
     93008, 120782, 120792, 120802, 120812, 120822, 123200, 123632, 125264,
     130032}

\* str.isspace(): what str.strip() takes for white space
SpaceChars ==
    {" ", "\t", "\n", "\r", "\f", "U+000B", "U+001C", "U+001D", "U+001E",
     "U+001F", "U+0085", "U+00A0", "U+1680", "U+2000", "U+2001", "U+2002",
     "U+2003", "U+2004", "U+2005", "U+2006", "U+2007", "U+2008", "U+2009",
     "U+200A", "U+2028", "U+2029", "U+202F", "U+205F", "U+3000"}

\* What int() takes for white space: the C locale's, and the white space
\* outside ASCII; not the separators U+001C to U+001F.
IntSpaceChars == SpaceChars \ {"U+001C", "U+001D", "U+001E", "U+001F"}

AsciiDigitValue ==
    ("0" :> 0 @@ "1" :> 1 @@ "2" :> 2 @@ "3" :> 3 @@ "4" :> 4 @@ "5" :> 5 @@
     "6" :> 6 @@ "7" :> 7 @@ "8" :> 8 @@ "9" :> 9 @@
     "a" :> 10 @@ "b" :> 11 @@ "c" :> 12 @@ "d" :> 13 @@ "e" :> 14 @@ "f" :> 15 @@
     "A" :> 10 @@ "B" :> 11 @@ "C" :> 12 @@ "D" :> 13 @@ "E" :> 14 @@ "F" :> 15)

UnicodeDigits == {UName(z + d) : z \in UnicodeZeros, d \in 0..9}

\* The digits of int(x, 16): the ASCII digits and letters a-f, A-F, and the
\* decimal digits of every other number system.
IsHexDigit(c) ==
    \/ c \in DOMAIN AsciiDigitValue
    \/ c \in UnicodeDigits

HexDigitValue(c) ==
    IF c \in DOMAIN AsciiDigitValue THEN AsciiDigitValue[c]
    ELSE CHOOSE d \in 0..9 : \E z \in UnicodeZeros : c = UName(z + d)

IsSpace(c) == c \in SpaceChars

IsIntSpace(c) == c \in IntSpaceChars

\* str.strip(): the string without the white space at its two ends
RECURSIVE StripLeft(_)
StripLeft(s) == IF s # <<>> /\ IsSpace(s[1]) THEN StripLeft(Tail(s)) ELSE s

RECURSIVE StripRight(_)
StripRight(s) ==
    IF s # <<>> /\ IsSpace(s[Len(s)]) THEN StripRight(SubSeq(s, 1, Len(s) - 1))
    ELSE s

StrStrip(s) == StripRight(StripLeft(s))

\* x without the white space of int() at its two ends
IntStrip(x) ==
    LET kept == {i \in 1..Len(x) : ~IsIntSpace(x[i])}
    IN  IF kept = {} THEN <<>>
        ELSE SubSeq(x, CHOOSE i \in kept : \A j \in kept : i <= j,
                    CHOOSE i \in kept : \A j \in kept : j <= i)

\* The digits of int(x, 16) after the sign and the prefix: hex digits, with
\* single underscores allowed between them (and after the prefix).
DigitsOk(d, afterPrefix) ==
    /\ \E i \in 1..Len(d) : IsHexDigit(d[i])
    /\ \A i \in 1..Len(d) :
         \/ IsHexDigit(d[i])
         \/ /\ d[i] = "_"
            /\ i < Len(d) /\ IsHexDigit(d[i + 1])
            /\ (i > 1 \/ afterPrefix)
            /\ (i = 1 \/ IsHexDigit(d[i - 1]))

RECURSIVE DigitsValue(_)
DigitsValue(d) ==
    IF d = <<>> THEN 0
    ELSE IF d[Len(d)] = "_" THEN DigitsValue(SubSeq(d, 1, Len(d) - 1))
    ELSE 16 * DigitsValue(SubSeq(d, 1, Len(d) - 1)) + HexDigitValue(d[Len(d)])

\* The digits d of int(x, 16), read after the sign and the prefix.
IntDigits(d, afterPrefix, negative) ==
    IF DigitsOk(d, afterPrefix)
    THEN [ok |-> TRUE, v |-> IF negative THEN -DigitsValue(d) ELSE DigitsValue(d)]
    ELSE [ok |-> FALSE, v |-> 0]

\* What follows the sign: a prefix 0x or 0X (the zero of any number system)
\* and the digits, or the digits alone.
IntBody(body, negative) ==
    IF /\ Len(body) >= 2
       /\ IsHexDigit(body[1]) /\ HexDigitValue(body[1]) = 0
       /\ body[2] \in {"x", "X"}
    THEN IntDigits(SubSeq(body, 3, Len(body)), TRUE, negative)
    ELSE IntDigits(body, FALSE, negative)

\* int(x, 16): [ok |-> TRUE, v |-> the value], or [ok |-> FALSE] for ValueError.
\* One sign may come first in x without the white space at its ends.
IntBase16(x) ==
    LET s == IntStrip(x)
    IN  IF s # <<>> /\ s[1] \in {"+", "-"} THEN IntBody(Tail(s), s[1] = "-")
        ELSE IntBody(s, FALSE)

White(a) == <<255, 255, 255, a>>

HexToRgba(arg, a) ==
    IF arg.isstr /\ arg.s # <<>> /\ arg.s[1] = "#" /\ Len(arg.s) = 7
    THEN LET rgb == [k \in 1..3 |-> IntBase16(SubSeq(arg.s, 2 * k, 2 * k + 1))]
         IN  IF \A k \in 1..3 : rgb[k].ok
             THEN [kind |-> "rgba", v |-> <<rgb[1].v, rgb[2].v, rgb[3].v, a>>]
             ELSE [kind |-> "ValueError", v |-> <<>>]
    ELSE [kind |-> "rgba", v |-> White(a)]

\* Two-character pieces the colour codes of the model are put together from.
HexPairs ==
    {<<"0", "0">>, <<"f", "f">>, <<"7", "F">>, <<"g", "0">>, <<"+", "f">>,
     <<"-", "1">>, <<" ", "a">>, <<"0", "x">>, <<"\t", "f">>, <<"A", "\n">>,
     <<"U+0663", "U+0663">>, <<"U+001C", "f">>, <<"U+3000", "U+FF11">>}

HexStrings ==
    {<<"#">> \o p \o q \o r : p \in HexPairs, q \in HexPairs, r \in HexPairs}
    \cup {<<>>, <<"#">>, <<"#", "f", "f", "f">>,
          <<"#", "f", "f", "f", "f", "f">>,
          <<"#", "f", "f", "f", "f", "f", "f", "0">>,
          <<"f", "f", "f", "f", "f", "f">>,
          <<"0", "f", "f", "f", "f", "f", "f">>}

HexArgs ==
    {[isstr |-> TRUE, s |-> s] : s \in HexStrings} \cup {[isstr |-> FALSE, s |-> <<>>]}

HexIdle == [pc |-> "idle"]

HexCalls == [pc : {"call"}, arg : HexArgs, result : {[kind |-> "none", v |-> <<>>]}]

HexToRgbaCall ==
    /\ hex.pc = "call"
    /\ hex' = [hex EXCEPT !.pc = "done", !.result = HexToRgba(hex.arg, OpaqueAlpha)]

(***************************************************************************)
(* choose_best_pipe_for_background(bg_img)                                 *)
(*                                                                         *)
(* The files of assets/pipes in sorted(glob) order; file i is named by its *)
(* index.  What Image.open and the alpha test make of a file:              *)
(*   unreadable        Image.open raises                                   *)
(*   rgba_transparent  mode RGBA, the least alpha below 255                *)
(*   rgba_opaque       mode RGBA, every alpha 255                          *)
(*   rgb               another mode                                        *)
(*   rgb_truncated     another mode, a header that opens, pixel data that  *)
(*                     does not load (Image.open reads the header only)    *)
(***************************************************************************)
FileKinds == {"unreadable", "rgba_transparent", "rgba_opaque", "rgb", "rgb_truncated"}

MaxFiles == 3

Pools == UNION {[1..n -> FileKinds] : n \in 0..MaxFiles}

NoneValue == [kind |-> "None", path |-> 0]

\* The loop over candidates: the indices Image.open accepts, split by the
\* alpha test, each list in the order of the candidates.
RgbaFirst(files) ==
    SelectSeq([i \in 1..Len(files) |-> i], LAMBDA i : files[i] = "rgba_transparent")

Others(files) ==
    SelectSeq([i \in 1..Len(files) |-> i],
              LAMBDA i : files[i] \in {"rgba_opaque", "rgb", "rgb_truncated"})

\* if not candidates: return None; ...; return ordered[0]
ChooseBestPipe(files) ==
    LET ordered == RgbaFirst(files) \o Others(files)
    IN  IF files = <<>> THEN NoneValue
        ELSE IF ordered = <<>> THEN [kind |-> "IndexError", path |-> 0]
        ELSE [kind |-> "path", path |-> ordered[1]]

PickIdle == [pc |-> "idle"]

PickCalls == [pc : {"call"}, files : Pools, result : {[kind |-> "none", path |-> 0]}]

ChooseBestPipeCall ==
    /\ pick.pc = "call"
    /\ pick' = [pick EXCEPT !.pc = "done", !.result = ChooseBestPipe(pick.files)]

(***************************************************************************)
(* gradient_fallback(width, height) and call_ai_background(prompt, width,  *)
(* height).  An image is [kind, mode, w, h]; the generator is an external  *)
(* service whose answer is drawn when the request is made.                 *)
(***************************************************************************)
RequestTimeout == 60

\* What requests.post, raise_for_status and Image.open can come to.
ServiceOutcomes == {"ok", "network_error", "timeout", "http_error", "undecodable"}

\* The sizes an answered image may have, whatever was asked for.
ServiceSizes == {<<1024, 1024>>, <<1200, 630>>}

\* Image.composite of two (width, height) images through a (width, height) mask
GradientFallback(width, height) ==
    [kind |-> "gradient", mode |-> "RGBA", w |-> width, h |-> height]

\* The same with the guard joined by "and".
MustFallBackBoth(url, prompt) == url = <<>> /\ StrStrip(prompt) = <<>>

\* not AI_API_URL or not prompt.strip()
MustFallBack(url, prompt) == url = <<>> \/ StrStrip(prompt) = <<>>

\* The try block: the image of the answer, or the fallback on any exception.
ServiceImage(outcome, size, width, height) ==
    IF outcome = "ok"
    THEN [kind |-> "generated", mode |-> "RGBA", w |-> size[1], h |-> size[2]]
    ELSE GradientFallback(width, height)

\* AI_API_URL = os.getenv("AI_IMAGE_API_URL", "").strip()
EnvValues == {<<>>, <<" ">>, <<"u">>, <<" ", "u">>, <<"\t", "u", "\n">>, <<"U+00A0">>}

Prompts ==
    {<<>>, <<" ">>, <<" ", " ">>, <<"p">>, <<" ", "p">>, <<"p", " ">>, <<"\n">>,
     <<" ", "\t">>, <<"U+001F", "p", "\n">>}

Sizes == {<<1080, 1080>>, <<1200, 630>>, <<1300, 650>>}

BgIdle == [pc |-> "idle"]

BgCalls ==
    [pc : {"call"}, url : {StrStrip(v) : v \in EnvValues}, prompt : Prompts,
     size : Sizes, contacted : {FALSE}, timeout : {0}, outcome : {"none"},
     result : {[kind |-> "none", mode |-> "none", w |-> 0, h |-> 0]}]

CallAiBackground ==
    /\ bg.pc = "call"
    /\ \/ /\ MustFallBack(bg.url, bg.prompt)
          /\ bg' = [bg EXCEPT !.pc = "done",
                              !.result = GradientFallback(bg.size[1], bg.size[2])]
       \/ /\ ~MustFallBack(bg.url, bg.prompt)
          /\ \E outcome \in ServiceOutcomes, size \in ServiceSizes :
                bg' = [bg EXCEPT !.pc = "done",
                                 !.contacted = TRUE,
                                 !.timeout = RequestTimeout,
                                 !.outcome = outcome,
                                 !.result = ServiceImage(outcome, size,
                                                         bg.size[1], bg.size[2])]

(***************************************************************************)
(* image_blankness_score(img) and auto_side_choice(bg_img)                 *)
(*                                                                         *)
(* The score reads the region through its SampleSide x SampleSide grey     *)
(* sample.  A sample of the model has two grey levels: k pixels of level   *)
(* hi, the others of level lo.  ImageStat gives count, sum and sum2, and   *)
(* var = (sum2 - sum^2/count)/count.  With count = 2^12 and sum, sum2      *)
(* below 2^28 every step of that is exact in binary64, so var is the       *)
(* rational VarNum / count^2.  The score 1.0 / (var + 1e-6) is kept as the *)
(* fraction num/den it is the rounding of; two samples whose variances     *)
(* differ are at least 2^-24 apart, which the two roundings cannot close,  *)
(* so the comparison of the scores is the comparison of the fractions.     *)
(***************************************************************************)
SampleSide == 64

SampleCount == SampleSide * SampleSide

Samples == [lo : {0, 100}, hi : {155, 255}, k : {0, 1, 2048}]

StatSum(s) == s.k * s.hi + (SampleCount - s.k) * s.lo

StatSum2(s) == s.k * s.hi * s.hi + (SampleCount - s.k) * s.lo * s.lo

\* count * sum2 - sum^2, the variance in units of 1 / count^2
VarNum(s) ==
    BigSub(BigMul(BigFromInt(StatSum2(s)), BigFromInt(SampleCount)),
           BigMul(BigFromInt(StatSum(s)), BigFromInt(StatSum(s))))

\* The same without the inversion: the variance itself as the score.
BlanknessNotInverted(s) ==
    [num |-> BigAdd(BigMul(VarNum(s), BigFromInt(1000000)),
                    BigMul(BigFromInt(SampleCount), BigFromInt(SampleCount))),
     den |-> <<1>>]

\* 1.0 / (var + 1e-6), in units of count^2 * 10^6
ImageBlanknessScore(s) ==
    [num |-> <<1>>,
     den |-> BigAdd(BigMul(VarNum(s), BigFromInt(1000000)),
                    BigMul(BigFromInt(SampleCount), BigFromInt(SampleCount)))]

\* a >= b of two fractions
ScoreGe(a, b) == ~BigLt(BigMul(a.num, b.den), BigMul(b.num, a.den))

\* The boxes of the two crops of a w x h background.
LeftBox(w, h) == <<0, 0, w \div 3, h>>

RightBox(w, h) == <<w - (w \div 3), 0, w, h>>

AutoSideChoice(left, right) ==
    IF ScoreGe(ImageBlanknessScore(left), ImageBlanknessScore(right))
    THEN "Left-Center"
    ELSE "Right-Center"

SideIdle == [pc |-> "idle"]

SideCalls ==
    [pc : {"call"}, size : {<<1080, 1080>>}, left : Samples, right : Samples,
     left_box : {<<>>}, right_box : {<<>>}, result : {"none"}]

AutoSideChoiceCall ==
    /\ side.pc = "call"
    /\ side' = [side EXCEPT !.pc = "done",
                            !.left_box = LeftBox(side.size[1], side.size[2]),
                            !.right_box = RightBox(side.size[1], side.size[2]),
                            !.result = AutoSideChoice(side.left, side.right)]

(***************************************************************************)
(* draw_text(img, txt, y, ratio, devanagari), nested in the handler, and   *)
(* draw_text_multiline, the same wrap and layout as a module function.     *)
(*                                                                         *)
(* The font is known through measure() alone.  A text is a sequence of     *)
(* tokens, a space or a word, each with the width w and height h of its    *)
(* box in the chosen font; the box of a line is as wide as its words and   *)
(* the spaces between them and as high as its highest word.  A line is the *)
(* sequence of its words.                                                  *)
(***************************************************************************)
SpaceW == 1

LineGap == 6

ShadowShift == 2

ShadowFill == <<0, 0, 0, 160>>

Space == [sp |-> TRUE, w |-> SpaceW, h |-> 0]

WordShapes ==
    {[sp |-> FALSE, w |-> 585, h |-> 51], [sp |-> FALSE, w |-> 584, h |-> 40],
     [sp |-> FALSE, w |-> 1201, h |-> 47]}

MaxWords == 3

\* " ".join(words)
RECURSIVE Join(_)
Join(ws) ==
    IF Len(ws) <= 1 THEN ws
    ELSE Join(SubSeq(ws, 1, Len(ws) - 1)) \o <<Space, ws[Len(ws)]>>

Texts ==
    {Join(ws) : ws \in UNION {[1..n -> WordShapes] : n \in 0..MaxWords}}
    \cup {<<Space>>}

\* txt.split()
Split(txt) == SelectSeq(txt, LAMBDA t : ~t.sp)

RECURSIVE SumW(_)
SumW(line) == IF line = <<>> THEN 0 ELSE SumW(Tail(line)) + line[1].w

RECURSIVE MaxH(_)
MaxH(line) == IF line = <<>> THEN 0 ELSE Max(MaxH(Tail(line)), line[1].h)

\* measure(t): (r - l, b - t0) of draw.textbbox
Measure(line) ==
    <<SumW(line) + (IF line = <<>> THEN 0 ELSE SpaceW * (Len(line) - 1)),
      MaxH(line)>>

Float09 == FDiv(9, 10)

\* max_w = int(W_*0.9)
MaxW(W) == FTrunc(FMulInt(W, Float09))

\* The same with the width compared by <.
FitsStrictly(line, ww, max_w) == line = <<>> \/ ww < max_w

\* if not line or ww <= max_w
Fits(line, ww, max_w) == line = <<>> \/ ww <= max_w

\* for word in words: ...; if line: lines.append(line)
RECURSIVE WrapLoop(_, _, _, _, _)
WrapLoop(words, i, lines, line, max_w) ==
    IF i > Len(words)
    THEN (IF line # <<>> THEN Append(lines, line) ELSE lines)
    ELSE LET trial == Append(line, words[i])
         IN  IF Fits(line, Measure(trial)[1], max_w)
             THEN WrapLoop(words, i + 1, lines, trial, max_w)
             ELSE WrapLoop(words, i + 1, Append(lines, line), <<words[i]>>, max_w)

Wrap(txt, max_w) == WrapLoop(Split(txt), 1, <<>>, <<>>, max_w)

\* heights.append(h) for each line
Heights(lines) == [i \in 1..Len(lines) |-> Measure(lines[i])[2]]

RECURSIVE SumSeq(_)
SumSeq(s) == IF s = <<>> THEN 0 ELSE SumSeq(Tail(s)) + s[1]

\* total_h: the heights, then (len(lines)-1)*6
TotalHeight(lines) == SumSeq(Heights(lines)) + (Len(lines) - 1) * LineGap

\* The fractions the handler passes, in hundredths: headline_y is 0.18 or
\* 0.22, subtext_y is headline_y + 0.12.
Float12 == FDiv(12, 100)

Float18 == FDiv(18, 100)

Float22 == FDiv(22, 100)

Float30 == FAdd(Float18, Float12)

Float34 == FAdd(Float22, Float12)

YFracs == {18, 22, 30, 34}

YFloat(yc) ==
    CASE yc = 18 -> Float18
      [] yc = 22 -> Float22
      [] yc = 30 -> Float30
      [] yc = 34 -> Float34

\* H_*y - total_h/2
TopFloat(H, yc, total_h) ==
    IF total_h >= 0
    THEN FSub(FMulInt(H, YFloat(yc)), FDiv(total_h, 2))
    ELSE FAdd(FMulInt(H, YFloat(yc)), FDiv(-total_h, 2))

\* for i, l in enumerate(lines): the draw calls of lines i.., from yy down
RECURSIVE DrawLoop(_, _, _, _, _, _, _)
DrawLoop(lines, heights, i, yy, W, shadow, color) ==
    IF i > Len(lines)
    THEN <<>>
    ELSE LET x == (W - Measure(lines[i])[1]) \div 2
             s == [fill |-> ShadowFill, line |-> i,
                   x |-> x + ShadowShift, y |-> yy + ShadowShift]
             t == [fill |-> color, line |-> i, x |-> x, y |-> yy]
         IN  (IF shadow THEN <<s, t>> ELSE <<t>>)
             \o DrawLoop(lines, heights, i + 1, yy + heights[i] + LineGap,
                         W, shadow, color)

Fills ==
    {[isstr |-> TRUE, s |-> <<"#", "f", "f", "7", "F", "0", "0">>],
     [isstr |-> TRUE, s |-> <<"#", "g", "g", "0", "0", "0", "0">>]}

TextSizes == {<<1300, 650>>, <<1080, 1080>>, <<1300, 130>>}

TextIdle == [pc |-> "idle"]

NoFloat == FZero

TextCall(size, txt, yc, fill, shadow, before, calls) ==
    [pc |-> "call", size |-> size, txt |-> txt, yc |-> yc, fill |-> fill,
     shadow |-> shadow, before |-> before, calls |-> calls, max_w |-> 0,
     lines |-> <<>>, heights |-> <<>>, total_h |-> 0, topf |-> NoFloat,
     top |-> 0, draws |-> <<>>]

TextCalls ==
    {TextCall(size, txt, yc, fill, shadow, 0, 0) :
        size \in TextSizes, txt \in Texts, yc \in YFracs,
        fill \in Fills, shadow \in BOOLEAN}

\* One call of draw_text, start to end.
DrawText ==
    /\ text.pc = "call"
    /\ LET W == text.size[1]
           H == text.size[2]
           color == HexToRgba(text.fill, OpaqueAlpha)
           max_w == MaxW(W)
           lines == Wrap(text.txt, max_w)
           heights == Heights(lines)
           total_h == TotalHeight(lines)
           topf == TopFloat(H, text.yc, total_h)
           top == FTrunc(topf)
       IN  IF text.txt = <<>>
           THEN text' = [text EXCEPT !.pc = "done", !.calls = @ + 1]
           ELSE IF color.kind # "rgba"
           THEN text' = [text EXCEPT !.pc = "raised"]
           ELSE text' = [text EXCEPT
                           !.pc = "done",
                           !.calls = @ + 1,
                           !.max_w = max_w,
                           !.lines = lines,
                           !.heights = heights,
                           !.total_h = total_h,
                           !.topf = topf,
                           !.top = top,
                           !.draws = DrawLoop(lines, heights, 1, top, W,
                                              text.shadow, color.v)]

\* The handler's second call: the subtext, 0.12 further down, on the canvas
\* the headline was drawn on.
DrawTextAgain ==
    /\ text.pc = "done"
    /\ text.calls = 1
    /\ text.yc \in {18, 22}
    /\ \E txt \in Texts :
          text' = TextCall(text.size, txt, text.yc + 12, text.fill, text.shadow,
                           text.before + Len(text.draws), 1)

(***************************************************************************)
(* The "Generate Banner" handler, one action per numbered step.            *)
(*                                                                         *)
(* The form is read at Init or where a step reads it; what lies outside    *)
(* the program (the generator, the folders, the translator) is chosen      *)
(* where the step reaches for it.                                          *)
(***************************************************************************)
GenSizes == {<<1080, 1080>>, <<1200, 630>>}

\* What a file_uploader hands over: nothing, an image, or a file that only
\* has an image's extension.
Uploads == {"none", "image", "not_image"}

UploadSize == <<13, 16>>

PoolImageSize == <<40, 30>>

HowMany == 3

PipeScales == {45, 70}

LogoScales == {18}

PipePositions == {"Left-Center", "Bottom-Center"}

LogoPositions == {"Top-Left", "Bottom-Right"}

BrandColor == [isstr |-> TRUE, s |-> <<"#", "F", "F", "F", "F", "F", "F">>]

EnglishText == Join(<<[sp |-> FALSE, w |-> 585, h |-> 51],
                      [sp |-> FALSE, w |-> 584, h |-> 40]>>)

HindiText == Join(<<[sp |-> FALSE, w |-> 300, h |-> 40]>>)

GenTexts == {<<>>, EnglishText}

GenSamples == {[lo |-> 0, hi |-> 255, k |-> 0], [lo |-> 0, hi |-> 255, k |-> 2048]}

GenPools ==
    {<<>>, <<"unreadable">>, <<"rgb_truncated">>, <<"unreadable", "rgb">>,
     <<"rgb", "rgba_transparent">>}

GenServiceSizes == {<<1024, 1024>>}

TranslateOutcomes == {"translated", "failed", "no_translator"}

\* The steps in the order of the handler's body.
StepOrderLogoFirst ==
    <<"background", "overlays", "place_logo", "choose_pipe", "place_pipe",
      "texts", "export", "done">>

StepOrder ==
    <<"background", "overlays", "choose_pipe", "place_pipe", "place_logo",
      "texts", "export", "done">>

StepAfter(pc) ==
    StepOrder[(CHOOSE i \in 1..Len(StepOrder) : StepOrder[i] = pc) + 1]

GenIdle == [pc |-> "idle"]

NoImage == <<>>

GenStarts ==
    [pc : {"background"}, size : GenSizes, pipe_file : Uploads,
     logo_file : Uploads, headline_en : GenTexts, subtext_en : GenTexts,
     canvas : {[mode |-> "none", w |-> 0, h |-> 0,
                                   layers |-> <<>>]},
     pool : {<<"no_glob">>}, seen : {<<"no_heuristic">>}, pipe_img : {NoImage},
     pipe_anchor : {"none"}, error : {"none"}, trace : {<<>>},
     exported : {[mode |-> "none", w |-> 0, h |-> 0, layers |-> <<>>]}]

Step(g, name) == [g EXCEPT !.pc = StepAfter(name), !.trace = Append(@, name)]

Abort(g, name, err) ==
    [g EXCEPT !.pc = "aborted", !.trace = Append(@, name), !.error = err]

Drawn(g, layer) == [g EXCEPT !.canvas.layers = Append(@, layer)]

\* 1) base = call_ai_background(prompt, int(W), int(H)).convert("RGBA")
Background ==
    /\ gen.pc = "background"
    /\ \E v \in EnvValues, prompt \in Prompts, outcome \in ServiceOutcomes,
          size \in GenServiceSizes :
          LET im == IF MustFallBack(StrStrip(v), prompt)
                    THEN GradientFallback(gen.size[1], gen.size[2])
                    ELSE ServiceImage(outcome, size, gen.size[1], gen.size[2])
          IN  gen' = Step([gen EXCEPT !.canvas =
                              [mode |-> "RGBA", w |-> im.w, h |-> im.h,
                               layers |-> <<"background">>]],
                          "background")

RECURSIVE Repeat(_, _)
Repeat(x, n) == IF n = 0 THEN <<>> ELSE <<x>> \o Repeat(x, n - 1)

\* 2) base = add_festival_overlays(base, festival, how_many=3)
Overlays ==
    /\ gen.pc = "overlays"
    /\ \E lower \in BOOLEAN, proper \in BOOLEAN, nfiles \in 0..(HowMany + 1) :
          LET folder == lower \/ proper
              k == Min(HowMany, nfiles)
          IN  IF ~folder \/ nfiles = 0
              THEN gen' = Step(gen, "overlays")
              ELSE \E composited \in 0..k :
                      gen' = Step([gen EXCEPT !.canvas.layers =
                                      @ \o Repeat("decor", composited)],
                                  "overlays")

\* 3) the first half: pipe_img and pipe_anchor
ChoosePipe ==
    /\ gen.pc = "choose_pipe"
    /\ IF gen.pipe_file # "none"
       THEN IF gen.pipe_file = "not_image"
            THEN gen' = Abort(gen, "choose_pipe", "UnidentifiedImageError")
            ELSE \E pipe_pos \in PipePositions :
                    gen' = Step([gen EXCEPT !.pipe_img = UploadSize,
                                            !.pipe_anchor = pipe_pos],
                                "choose_pipe")
       ELSE \E files \in GenPools, left \in GenSamples, right \in GenSamples :
               LET picked == ChooseBestPipe(files)
                   g == [gen EXCEPT !.pool = files, !.seen = gen.canvas.layers]
               IN  IF picked.kind = "IndexError"
                   THEN gen' = Abort(g, "choose_pipe", "IndexError")
                   ELSE IF picked.kind = "path" /\ files[picked.path] = "rgb_truncated"
                   THEN gen' = Abort(g, "choose_pipe", "OSError")
                   ELSE gen' = Step([g EXCEPT
                                       !.pipe_img = IF picked.kind = "path"
                                                    THEN PoolImageSize
                                                    ELSE NoImage,
                                       !.pipe_anchor = AutoSideChoice(left, right)],
                                    "choose_pipe")

\* int(W * (pipe_scale / 100.0))
TargetW(W, scale) == FTrunc(FMulInt(W, FDiv(scale, 100)))

\* place_image(base, img, target_w, anchor=anchor) on the handler's canvas
Placed(g, name, layer, img, target_w, anchor) ==
    LET o == NewSize(img[1], img[2], target_w)
        dest == AnchorOffset(g.canvas.w, g.canvas.h, o[1], o[2], anchor,
                             DefaultMargin)
    IN  {IF outcome = "done"
         THEN Step(Drawn(g, layer), name)
         ELSE Abort(g, name, outcome) : outcome \in CompositeOutcomes(dest)}

\* 3) the second half: if pipe_img is not None: place_image(...)
PlacePipe ==
    /\ gen.pc = "place_pipe"
    /\ IF gen.pipe_img = NoImage
       THEN gen' = Step(gen, "place_pipe")
       ELSE \E pipe_scale \in PipeScales :
               gen' \in Placed(gen, "place_pipe", "pipe", gen.pipe_img,
                               TargetW(gen.size[1], pipe_scale), gen.pipe_anchor)

\* 4) if logo_file: load_image, place_image
PlaceLogo ==
    /\ gen.pc = "place_logo"
    /\ IF gen.logo_file = "none"
       THEN gen' = Step(gen, "place_logo")
       ELSE IF gen.logo_file = "not_image"
       THEN gen' = Abort(gen, "place_logo", "UnidentifiedImageError")
       ELSE \E logo_scale \in LogoScales, logo_pos \in LogoPositions :
               gen' \in Placed(gen, "place_logo", "logo", UploadSize,
                               TargetW(gen.size[1], logo_scale), logo_pos)

\* text_to_hindi(txt), text_to_hindi_sub(txt)
TextToHindi(txt, use_hindi, outcome) ==
    IF txt = <<>> \/ ~use_hindi \/ outcome = "no_translator" THEN txt
    ELSE IF outcome = "translated" THEN HindiText
    ELSE txt

\* The draw calls of one draw_text(img, txt, y, ratio, devanagari).
TextDraws(W, H, txt, yc, shadow, color) ==
    IF txt = <<>> THEN <<>>
    ELSE LET lines == Wrap(txt, MaxW(W))
             heights == Heights(lines)
             top == FTrunc(TopFloat(H, yc, TotalHeight(lines)))
         IN  DrawLoop(lines, heights, 1, top, W, shadow, color)

\* What the two translations can make of the two texts of the form.
Translations(headline_en, subtext_en) ==
    {<<TextToHindi(headline_en, use_hindi, o1),
       TextToHindi(subtext_en, use_hindi_sub, o2)>> :
        use_hindi \in BOOLEAN, use_hindi_sub \in BOOLEAN,
        o1 \in TranslateOutcomes, o2 \in TranslateOutcomes}

\* 5) the two translations, headline_y and subtext_y, the two draw_text calls
DrawTexts ==
    /\ gen.pc = "texts"
    /\ \E txts \in Translations(gen.headline_en, gen.subtext_en),
          shadow \in BOOLEAN :
          LET headline_y == IF gen.size[2] >= gen.size[1] THEN 18 ELSE 22
              subtext_y == headline_y + 12
              color == HexToRgba(BrandColor, OpaqueAlpha).v
              d1 == TextDraws(gen.canvas.w, gen.canvas.h, txts[1],
                              headline_y, shadow, color)
              d2 == TextDraws(gen.canvas.w, gen.canvas.h, txts[2],
                              subtext_y, shadow, color)
              g1 == IF d1 = <<>> THEN gen ELSE Drawn(gen, "headline")
              g2 == IF d2 = <<>> THEN g1 ELSE Drawn(g1, "subtext")
          IN  gen' = Step(g2, "texts")

\* 6) base.convert("RGB").save(buf, format="PNG")
Export ==
    /\ gen.pc = "export"
    /\ gen' = Step([gen EXCEPT !.exported = [gen.canvas EXCEPT !.mode = "RGB"]],
                   "export")

(***************************************************************************)
(* Specifications: the handler, and each function called on its own.       *)
(***************************************************************************)
Init ==
    /\ gen \in GenStarts
    /\ place = PlaceIdle /\ hex = HexIdle /\ text = TextIdle
    /\ side = SideIdle /\ pick = PickIdle /\ bg = BgIdle

Next ==
    \/ Background /\ UNCHANGED <<place, hex, text, side, pick, bg>>
    \/ Overlays /\ UNCHANGED <<place, hex, text, side, pick, bg>>
    \/ ChoosePipe /\ UNCHANGED <<place, hex, text, side, pick, bg>>
    \/ PlacePipe /\ UNCHANGED <<place, hex, text, side, pick, bg>>
    \/ PlaceLogo /\ UNCHANGED <<place, hex, text, side, pick, bg>>
    \/ DrawTexts /\ UNCHANGED <<place, hex, text, side, pick, bg>>
    \/ Export /\ UNCHANGED <<place, hex, text, side, pick, bg>>

Spec == Init /\ [][Next]_vars

InitPlace ==
    /\ place \in PlaceCalls
    /\ gen = GenIdle /\ hex = HexIdle /\ text = TextIdle
    /\ side = SideIdle /\ pick = PickIdle /\ bg = BgIdle

NextPlace == PlaceImage /\ UNCHANGED <<gen, hex, text, side, pick, bg>>

SpecPlace == InitPlace /\ [][NextPlace]_vars

InitHex ==
    /\ hex \in HexCalls
    /\ gen = GenIdle /\ place = PlaceIdle /\ text = TextIdle
    /\ side = SideIdle /\ pick = PickIdle /\ bg = BgIdle

NextHex == HexToRgbaCall /\ UNCHANGED <<gen, place, text, side, pick, bg>>

SpecHex == InitHex /\ [][NextHex]_vars

InitText ==
    /\ text \in TextCalls
    /\ gen = GenIdle /\ place = PlaceIdle /\ hex = HexIdle
    /\ side = SideIdle /\ pick = PickIdle /\ bg = BgIdle

NextText ==
    \/ DrawText /\ UNCHANGED <<gen, place, hex, side, pick, bg>>
    \/ DrawTextAgain /\ UNCHANGED <<gen, place, hex, side, pick, bg>>

SpecText == InitText /\ [][NextText]_vars

InitSide ==
    /\ side \in SideCalls
    /\ gen = GenIdle /\ place = PlaceIdle /\ hex = HexIdle
    /\ text = TextIdle /\ pick = PickIdle /\ bg = BgIdle

NextSide == AutoSideChoiceCall /\ UNCHANGED <<gen, place, hex, text, pick, bg>>

SpecSide == InitSide /\ [][NextSide]_vars

InitPick ==
    /\ pick \in PickCalls
    /\ gen = GenIdle /\ place = PlaceIdle /\ hex = HexIdle
    /\ text = TextIdle /\ side = SideIdle /\ bg = BgIdle

NextPick == ChooseBestPipeCall /\ UNCHANGED <<gen, place, hex, text, side, bg>>

SpecPick == InitPick /\ [][NextPick]_vars

InitBg ==
    /\ bg \in BgCalls
    /\ gen = GenIdle /\ place = PlaceIdle /\ hex = HexIdle
    /\ text = TextIdle /\ side = SideIdle /\ pick = PickIdle

NextBg == CallAiBackground /\ UNCHANGED <<gen, place, hex, text, side, pick>>

SpecBg == InitBg /\ [][NextBg]_vars

(***************************************************************************)
(* The claims.                                                             *)
(***************************************************************************)
\* v is n / 2 rounded down
HalfOf(v, n) == 2 * v <= n /\ n <= 2 * v + 1

\* C1: for each of the seven anchor tokens, every canvas size (bx, by),
\* resized overlay size (ow, oh) and margin m, the offset place_image blends
\* the overlay at is the entry of the anchor table: (m, m), (bx-ow-m, m),
\* (m, by-oh-m), (bx-ow-m, by-oh-m), (m, (by-oh)/2), (bx-ow-m, (by-oh)/2),
\* ((bx-ow)/2, by-oh-m), the halves rounded down.
AnchorTable ==
    (place.pc = "done" /\ place.anchor \in Anchors) =>
        LET bx == place.base[1]
            by == place.base[2]
            ow == place.o[1]
            oh == place.o[2]
            m == place.margin
            x == place.dest[1]
            y == place.dest[2]
        IN  CASE place.anchor = "Top-Left" -> x = m /\ y = m
              [] place.anchor = "Top-Right" -> x = bx - ow - m /\ y = m
              [] place.anchor = "Bottom-Left" -> x = m /\ y = by - oh - m
              [] place.anchor = "Bottom-Right" ->
                    x = bx - ow - m /\ y = by - oh - m
              [] place.anchor = "Left-Center" -> x = m /\ HalfOf(y, by - oh)
              [] place.anchor = "Right-Center" ->
                    x = bx - ow - m /\ HalfOf(y, by - oh)
              [] place.anchor = "Bottom-Center" ->
                    HalfOf(x, bx - ow) /\ y = by - oh - m

\* An overlay blended bottom-centre whose free width is odd and whose bottom
\* row is not its centre row.
AnchorTableWitness ==
    /\ place.pc = "done"
    /\ place.anchor = "Bottom-Center"
    /\ place.margin = DefaultMargin
    /\ (place.base[1] - place.o[1]) % 2 = 1
    /\ place.dest = <<(place.base[1] - place.o[1] - 1) \div 2,
                      place.base[2] - place.o[2] - DefaultMargin>>
    /\ ~HalfOf(place.dest[2], place.base[2] - place.o[2])

RECURSIVE Concat(_)
Concat(ss) == IF ss = <<>> THEN <<>> ELSE ss[1] \o Concat(Tail(ss))

\* C2: the lines of the word wrap, taken in order, hold exactly the words of
\* the text in their order; no line is empty; a line of two or more words is
\* no wider than 0.9 times the canvas width; a word wider than that stands
\* alone on its line; and a line ends only where the next word, added to it,
\* would be wider than that.
WrapIsGreedy ==
    text.pc = "done" =>
        LET W == text.size[1]
            lines == text.lines
            Wide(line) == 10 * Measure(line)[1] > 9 * W
        IN  /\ Concat(lines) = SelectSeq(text.txt, LAMBDA t : ~t.sp)
            /\ \A i \in 1..Len(lines) :
                  /\ lines[i] # <<>>
                  /\ Len(lines[i]) >= 2 => ~Wide(lines[i])
                  /\ \A j \in 1..Len(lines[i]) :
                        Wide(<<lines[i][j]>>) => Len(lines[i]) = 1
                  /\ i < Len(lines) => Wide(Append(lines[i], lines[i + 1][1]))

\* Two words that fill the limit to the pixel on one line, then a word too
\* wide for any line on its own.
WrapIsGreedyWitness ==
    /\ text.pc = "done"
    /\ Len(text.lines) = 2
    /\ Len(text.lines[1]) = 2
    /\ 10 * Measure(text.lines[1])[1] = 9 * text.size[1]
    /\ 10 * Measure(text.lines[2])[1] > 9 * text.size[1]

\* C3: auto_side_choice answers "Left-Center" exactly when the grey variance
\* of the left third is less than or equal to that of the right third, and
\* "Right-Center" otherwise; it answers nothing else.
LeftIffNotMoreVaried ==
    side.pc = "done" =>
        /\ side.result \in {"Left-Center", "Right-Center"}
        /\ side.result = "Left-Center"
              <=> ~BigLt(VarNum(side.right), VarNum(side.left))

\* Two thirds that differ and are equally varied, not uniform: left wins.
LeftIffNotMoreVariedWitness ==
    /\ side.pc = "done"
    /\ side.left # side.right
    /\ VarNum(side.left) = VarNum(side.right)
    /\ VarNum(side.left) # <<>>
    /\ side.result = "Left-Center"

\* C4: choose_best_pipe_for_background returns without raising, whatever the
\* files are; it returns None when no file can be opened, else the first
\* file with some transparency if there is one, else the first file that can
\* be opened; it never returns a file that cannot be opened.
PickNeverRaises ==
    pick.pc = "done" =>
        LET files == pick.files
            readable == {i \in 1..Len(files) : files[i] # "unreadable"}
            transparent == {i \in readable : files[i] = "rgba_transparent"}
            First(S) == CHOOSE i \in S : \A j \in S : i <= j
        IN  /\ pick.result.kind \in {"None", "path"}
            /\ readable = {} => pick.result = NoneValue
            /\ transparent # {} =>
                  pick.result = [kind |-> "path", path |-> First(transparent)]
            /\ (readable # {} /\ transparent = {}) =>
                  pick.result = [kind |-> "path", path |-> First(readable)]

IsBlank(str) == \A i \in 1..Len(str) : str[i] \in SpaceChars

\* C5: call_ai_background always returns an image; it is the fallback
\* gradient of the width and height asked for when the URL is not set, when
\* the prompt is empty or blank, and when the request fails; and with no URL
\* or a blank prompt the generator is not contacted.
BackgroundNeverFails ==
    bg.pc = "done" =>
        LET gradient == [kind |-> "gradient", mode |-> "RGBA",
                         w |-> bg.size[1], h |-> bg.size[2]]
            skipped == bg.url = <<>> \/ IsBlank(bg.prompt)
        IN  /\ bg.result.kind \in {"gradient", "generated"}
            /\ bg.result.mode = "RGBA"
            /\ skipped => (~bg.contacted /\ bg.result = gradient)
            /\ ~skipped => (bg.contacted /\ bg.timeout = RequestTimeout)
            /\ (bg.contacted /\ bg.outcome # "ok") => bg.result = gradient
            /\ (bg.contacted /\ bg.outcome = "ok") => bg.result.kind = "generated"

\* A URL is set and the prompt is a lone newline: the gradient, no request.
BackgroundNeverFailsWitness ==
    /\ bg.pc = "done"
    /\ bg.url # <<>>
    /\ bg.prompt = <<"\n">>
    /\ ~bg.contacted
    /\ bg.result.kind = "gradient"
    /\ <<bg.result.w, bg.result.h>> = bg.size

\* C6: a generation that was started reaches the export; a pool of product
\* photos none of which can be opened does not abort it.
NeverFailRender ==
    ~(/\ gen.pc = "aborted"
      /\ gen.pipe_file = "none"
      /\ gen.pool # <<>>
      /\ \A i \in 1..Len(gen.pool) : gen.pool[i] = "unreadable")

IsColourCode(arg) ==
    /\ arg.isstr
    /\ Len(arg.s) = 7
    /\ arg.s[1] = "#"
    /\ \A i \in 2..7 : arg.s[i] \in DOMAIN AsciiDigitValue

\* C7: hex_to_rgba raises for no input and every result is an opaque RGBA
\* tuple: "#" and six hexadecimal digits give their (r, g, b, 255), every
\* other input gives opaque white.
ColourNeverRaises ==
    hex.pc = "done" =>
        /\ hex.result.kind = "rgba"
        /\ Len(hex.result.v) = 4
        /\ hex.result.v[4] = 255
        /\ IsColourCode(hex.arg) =>
              \A c \in 1..3 :
                  hex.result.v[c] = 16 * AsciiDigitValue[hex.arg.s[2 * c]]
                                    + AsciiDigitValue[hex.arg.s[2 * c + 1]]
        /\ ~IsColourCode(hex.arg) => hex.result.v = <<255, 255, 255, 255>>

\* C8: for an asset w x h and a target width t > 0, place_image blends an
\* overlay of exactly t x round(h * t / w), each side at least 1.
ResizeIsExact ==
    (place.pc = "done" /\ place.w > 0) =>
        LET t == place.target_w
            Nearest(r) == 2 * place.w * r - place.w <= 2 * place.h * t
                          /\ 2 * place.h * t <= 2 * place.w * r + place.w
        IN  /\ place.o[1] = t
            /\ \E r \in 0..(place.h * t + 1) : Nearest(r) /\ place.o[2] = Max(1, r)

\* The quotient n / d cut to an integer, toward zero
CutQuotient(n, d) == IF n >= 0 THEN n \div d ELSE -((-n) \div d)

\* C9: for lines of heights h_1..h_n the block is h_1+...+h_n + 6(n-1) high;
\* the first line is drawn at yFraction x canvas height - block height / 2,
\* cut to an integer (yFraction is text.yc hundredths); line i is drawn
\* h_1+...+h_(i-1) + 6(i-1) below it, at x = (canvas width - line width) / 2;
\* with the shadow on, each line's shadow is drawn at (+2, +2) just before
\* the line; and none of it depends on what was drawn before the call.
LayoutTopIsExact ==
    (text.pc = "done" /\ text.lines # <<>>) =>
        LET W == text.size[1]
            H == text.size[2]
            n == Len(text.lines)
            h == [i \in 1..n |-> Measure(text.lines[i])[2]]
            Above(i) == SumSeq(SubSeq(h, 1, i - 1)) + 6 * (i - 1)
            per == IF text.shadow THEN 2 ELSE 1
            Line(i) == text.draws[per * i]
        IN  /\ text.total_h = SumSeq(h) + 6 * (n - 1)
            /\ text.top = CutQuotient(2 * H * text.yc - 100 * text.total_h, 200)
            /\ Len(text.draws) = per * n
            /\ \A i \in 1..n :
                  /\ Line(i).line = i
                  /\ Line(i).y = text.top + Above(i)
                  /\ HalfOf(Line(i).x, W - Measure(text.lines[i])[1])
                  /\ Line(i).fill[4] = 255
                  /\ text.shadow =>
                        text.draws[2 * i - 1] =
                            [fill |-> <<0, 0, 0, 160>>, line |-> i,
                             x |-> Line(i).x + 2, y |-> Line(i).y + 2]

LayerRank(layer) ==
    CASE layer = "background" -> 1
      [] layer = "decor" -> 2
      [] layer = "pipe" -> 3
      [] layer = "logo" -> 4
      [] layer = "headline" -> 5
      [] layer = "subtext" -> 6

\* C10: the steps of a generation run in the order background, decorative
\* assets, product photo, logo, texts, export, each at most once, and the
\* layers lie on the canvas in that order; the pick and the side choice run
\* only with no product photo uploaded, on the canvas with its decorations;
\* the canvas is RGBA throughout and the exported image alone is RGB, of the
\* layers the canvas has when the generation is done.
LayersInOrder ==
    gen.pc # "idle" =>
        LET order == <<"background", "overlays", "choose_pipe", "place_pipe",
                       "place_logo", "texts", "export">>
            layers == gen.canvas.layers
            ran(step) == \E i \in 1..Len(gen.trace) : gen.trace[i] = step
        IN  /\ Len(gen.trace) <= Len(order)
            /\ \A i \in 1..Len(gen.trace) : gen.trace[i] = order[i]
            /\ \A i \in 1..Len(layers) : \A j \in (i + 1)..Len(layers) :
                  /\ LayerRank(layers[i]) <= LayerRank(layers[j])
                  /\ layers[i] = layers[j] => layers[i] = "decor"
            /\ ran("background") =>
                  (gen.canvas.mode = "RGBA" /\ layers[1] = "background")
            /\ gen.seen # <<"no_heuristic">> =>
                  /\ gen.pipe_file = "none"
                  /\ ran("overlays")
                  /\ gen.seen = SubSeq(layers, 1, Len(gen.seen))
                  /\ \A i \in 2..Len(gen.seen) : gen.seen[i] = "decor"
                  /\ \A i \in (Len(gen.seen) + 1)..Len(layers) : layers[i] # "decor"
            /\ ran("choose_pipe") =>
                  (gen.seen # <<"no_heuristic">> <=> gen.pipe_file = "none")
            /\ IF ran("export")
               THEN /\ gen.pc = "done"
                    /\ gen.exported = [gen.canvas EXCEPT !.mode = "RGB"]
               ELSE gen.pc # "done" /\ gen.exported.mode = "none"

\* A finished banner with every kind of layer, its pipe picked by the
\* heuristic on the decorated canvas.
LayersInOrderWitness ==
    /\ gen.pc = "done"
    /\ gen.pipe_file = "none"
    /\ gen.seen = <<"background", "decor", "decor">>
    /\ gen.canvas.layers = <<"background", "decor", "decor", "pipe", "logo",
                             "headline", "subtext">>
    /\ gen.exported.mode = "RGB"

=============================================================================
